---------------------------- MODULE Spec2Model ----------------------------
(***************************************************************************)
(* librustconfig (src/src/config.rs): Config, OptionWriter and             *)
(* OptionReader over the libconfig setting tree.                           *)
(*                                                                         *)
(* The setting tree lives in a heap of config_setting_t blocks addressed   *)
(* by pointers 1..HeapSize (0 is the null pointer).  Every allocation      *)
(* takes a fresh address, so a view of a destroyed block is known by its   *)
(* address: it is dangling, and what an access through it does is a choice *)
(* over what the address may denote by then (see Denotes).                 *)
(*                                                                         *)
(* Option<T> is a sequence: <<>> is None, <<x>> is Some(x).                *)
(* A C string is a sequence of one-character strings.                      *)
(***************************************************************************)
EXTENDS Integers, Sequences, FiniteSets, TLC

\* The addresses of the heap: enough for every bound on the allocations
\* below and one more parse.
HeapSize == 8

\* The number of config_setting_t blocks one behaviour of Spec allocates.
MaxNodes == 3

NULL == 0
None == <<>>
Some(x) == <<x>>

CONFIG_TRUE == 1
CONFIG_FALSE == 0

CONFIG_TYPE_NONE   == "none"
CONFIG_TYPE_GROUP  == "group"
CONFIG_TYPE_INT    == "int"
CONFIG_TYPE_INT64  == "int64"
CONFIG_TYPE_FLOAT  == "float"
CONFIG_TYPE_STRING == "string"
CONFIG_TYPE_BOOL   == "bool"
CONFIG_TYPE_ARRAY  == "array"
CONFIG_TYPE_LIST   == "list"

ScalarTypes == {CONFIG_TYPE_INT, CONFIG_TYPE_INT64, CONFIG_TYPE_FLOAT,
                CONFIG_TYPE_STRING, CONFIG_TYPE_BOOL}
AggregateTypes == {CONFIG_TYPE_GROUP, CONFIG_TYPE_ARRAY, CONFIG_TYPE_LIST}

\* The largest value of a C int (and of the integers of the model checker).
INT_MAX == 2147483647

VARIABLES
    config,        \* raw::config_t: [root, mem, live, brk]
    root_element,  \* Config.root_element : Option<*mut config_setting_t>
    fs,            \* the file system: file name -> Option<text>
    last           \* the last API call and what it returned

vars == <<config, root_element, fs, last>>

Ptrs == 1..HeapSize

(***************************************************************************)
(* config_setting_t.  value is the C union, one field per member; a bool   *)
(* is stored in ival.                                                      *)
(***************************************************************************)
Blank ==
    [type |-> CONFIG_TYPE_NONE, name |-> None, parent |-> NULL, list |-> <<>>,
     ival |-> 0, llval |-> 0, fval |-> "0.0", sval |-> None]

\* ------------------------------------------------------------------------
\* C strings
\* ------------------------------------------------------------------------
PATH_TOKENS == {":", ".", "/"}
Letters == {"a", "b", "c", "x"}
DecimalDigits == <<"0", "1", "2", "3", "4", "5", "6", "7", "8", "9">>
Digits == {DecimalDigits[i] : i \in 1..Len(DecimalDigits)}

isalpha(ch) == ch \in Letters
isdigit(ch) == ch \in Digits

RECURSIVE NameRestOK(_)
NameRestOK(s) ==
    IF s = <<>> THEN TRUE
    ELSE /\ (isalpha(Head(s)) \/ isdigit(Head(s)) \/ Head(s) \in {"*", "_", "-"})
         /\ NameRestOK(Tail(s))

\* libconfig __config_validate_name, reached through config_setting_add.
config_validate_name(name) ==
    /\ name # <<>>
    /\ (isalpha(Head(name)) \/ Head(name) = "*")
    /\ NameRestOK(Tail(name))

\* The part of a string before its first path token (or its end).
RECURSIVE Segment(_)
Segment(s) ==
    IF s = <<>> \/ Head(s) \in PATH_TOKENS THEN <<>>
    ELSE <<Head(s)>> \o Segment(Tail(s))

\* The string from its first path token on (or its end).
RECURSIVE AfterSegment(_)
AfterSegment(s) ==
    IF s = <<>> \/ Head(s) \in PATH_TOKENS THEN s
    ELSE AfterSegment(Tail(s))

\* The string after its leading path tokens.
RECURSIVE SkipTokens(_)
SkipTokens(s) ==
    IF s = <<>> \/ Head(s) \notin PATH_TOKENS THEN s
    ELSE SkipTokens(Tail(s))

\* libconfig __config_name_compare: names are equal up to a path token.
config_name_compare(a, b) == Segment(a) = Segment(b)

DigitValue(ch) == (CHOOSE i \in 1..Len(DecimalDigits) : DecimalDigits[i] = ch) - 1

RECURSIVE AtoiFrom(_, _)
AtoiFrom(s, acc) ==
    IF s = <<>> \/ ~isdigit(Head(s)) THEN acc
    ELSE AtoiFrom(Tail(s), 10 * acc + DigitValue(Head(s)))

\* C atoi on the strings of the model (no sign, no leading space).
atoi(s) == AtoiFrom(s, 0)


\* ------------------------------------------------------------------------
\* libconfig, as called through libconfig_sys (raw::).  c is a config_t with
\* the heap it owns: c.root, c.mem (address -> block), c.live (the
\* allocated blocks), c.brk (the next fresh address).
\* ------------------------------------------------------------------------
config_setting_is_aggregate(c, s) == c.mem[s].type \in AggregateTypes

\* libconfig __config_list_search: the 1-based position of the first element
\* of the list whose name compares equal, 0 when there is none.
list_search(c, list, name) ==
    IF name = None THEN 0
    ELSE LET hits == {i \in 1..Len(list) :
                        /\ c.mem[list[i]].name # None
                        /\ config_name_compare(name[1], c.mem[list[i]].name[1])}
         IN IF hits = {} THEN 0 ELSE CHOOSE i \in hits : \A j \in hits : i <= j

\* raw::config_setting_get_member
config_setting_get_member(c, s, name) ==
    IF c.mem[s].type # CONFIG_TYPE_GROUP THEN NULL
    ELSE LET i == list_search(c, c.mem[s].list, name)
         IN IF i = 0 THEN NULL ELSE c.mem[s].list[i]

\* raw::config_setting_get_elem (idx is an unsigned int)
config_setting_get_elem(c, s, idx) ==
    IF ~config_setting_is_aggregate(c, s) THEN NULL
    ELSE IF idx >= Len(c.mem[s].list) THEN NULL
    ELSE c.mem[s].list[idx + 1]

\* raw::config_setting_lookup(setting, path)
RECURSIVE config_setting_lookup(_, _, _)
config_setting_lookup(c, found, p) ==
    LET p1 == SkipTokens(p)
    IN IF p1 = <<>> \/ found = NULL THEN found
       ELSE LET nxt == IF Head(p1) = "["
                       THEN config_setting_get_elem(c, found, atoi(Tail(p1)))
                       ELSE config_setting_get_member(c, found, Some(p1))
            IN config_setting_lookup(c, nxt, AfterSegment(p1))

\* raw::config_root_setting
config_root_setting(c) == c.root

\* raw::config_setting_name
config_setting_name(c, s) == c.mem[s].name

\* raw::config_setting_parent
config_setting_parent(c, s) == c.mem[s].parent

\* raw::config_setting_type
config_setting_type(c, s) == c.mem[s].type

\* raw::config_setting_is_group / is_array / is_list
config_setting_is_group(c, s) ==
    IF c.mem[s].type = CONFIG_TYPE_GROUP THEN CONFIG_TRUE ELSE CONFIG_FALSE
config_setting_is_array(c, s) ==
    IF c.mem[s].type = CONFIG_TYPE_ARRAY THEN CONFIG_TRUE ELSE CONFIG_FALSE
config_setting_is_list(c, s) ==
    IF c.mem[s].type = CONFIG_TYPE_LIST THEN CONFIG_TRUE ELSE CONFIG_FALSE

\* raw::config_setting_index: the 0-based position in the parent, or -1.
config_setting_index(c, s) ==
    IF c.mem[s].parent = NULL THEN -1
    ELSE LET list == c.mem[c.mem[s].parent].list
             hits == {i \in 1..Len(list) : list[i] = s}
         IN IF hits = {} THEN -1 ELSE (CHOOSE i \in hits : TRUE) - 1

\* Rust `index as u32`: a negative index wraps to 2^32 + index, which is
\* beyond every list length; the model holds it as INT_MAX + 1 + index.
as_u32(i) == IF i < 0 THEN INT_MAX + (1 + i) ELSE i

\* config_setting_create without the test that the parent is an aggregate.
config_setting_create_under_any(c, parent, name, type) ==
    LET s == c.brk
    IN [c |-> [c EXCEPT
                 !.mem[s] = [Blank EXCEPT !.type = type, !.name = name,
                                          !.parent = parent],
                 !.mem[parent].list = Append(@, s),
                 !.live = @ \cup {s},
                 !.brk = @ + 1],
        ret |-> s]

\* libconfig config_setting_create: a fresh block appended to the parent.
config_setting_create(c, parent, name, type) ==
    IF ~config_setting_is_aggregate(c, parent) THEN [c |-> c, ret |-> NULL]
    ELSE LET s == c.brk
         IN [c |-> [c EXCEPT
                      !.mem[s] = [Blank EXCEPT !.type = type, !.name = name,
                                               !.parent = parent],
                      !.mem[parent].list = Append(@, s),
                      !.live = @ \cup {s},
                      !.brk = @ + 1],
             ret |-> s]

\* config_setting_add without the test for a member of that name.
config_setting_add_no_member_test(c, parent, name, type) ==
    IF parent = NULL THEN [c |-> c, ret |-> NULL]
    ELSE IF c.mem[parent].type = CONFIG_TYPE_ARRAY /\ type \notin ScalarTypes
    THEN [c |-> c, ret |-> NULL]
    ELSE LET nm == IF c.mem[parent].type \in {CONFIG_TYPE_ARRAY, CONFIG_TYPE_LIST}
                   THEN None ELSE Some(name)
         IN IF nm # None /\ ~config_validate_name(nm[1])
            THEN [c |-> c, ret |-> NULL]
            ELSE config_setting_create(c, parent, nm, type)

\* raw::config_setting_add(parent, name, type)
config_setting_add(c, parent, name, type) ==
    IF parent = NULL THEN [c |-> c, ret |-> NULL]
    ELSE IF c.mem[parent].type = CONFIG_TYPE_ARRAY /\ type \notin ScalarTypes
    THEN [c |-> c, ret |-> NULL]
    ELSE LET nm == IF c.mem[parent].type \in {CONFIG_TYPE_ARRAY, CONFIG_TYPE_LIST}
                   THEN None ELSE Some(name)
         IN IF nm # None /\ ~config_validate_name(nm[1])
            THEN [c |-> c, ret |-> NULL]
            ELSE IF config_setting_get_member(c, parent, nm) # NULL
            THEN [c |-> c, ret |-> NULL]
            ELSE config_setting_create(c, parent, nm, type)

\* The blocks of the subtree of s.
RECURSIVE Subtree(_, _)
Subtree(c, s) ==
    {s} \cup UNION {Subtree(c, c.mem[s].list[i]) : i \in 1..Len(c.mem[s].list)}

RemoveAt(seq, i) == SubSeq(seq, 1, i - 1) \o SubSeq(seq, i + 1, Len(seq))

\* libconfig __config_setting_destroy: the blocks are freed.  What freed
\* memory holds is not tracked: the blocks read as Blank.
Free(c, blocks) ==
    [c EXCEPT !.mem = [p \in Ptrs |-> IF p \in blocks THEN Blank ELSE c.mem[p]],
              !.live = @ \ blocks]

\* libconfig __config_list_remove followed by __config_setting_destroy: the
\* element leaves the parent's list and its subtree is freed.
list_remove_destroy(c, parent, i) ==
    LET s == c.mem[parent].list[i]
    IN Free([c EXCEPT !.mem[parent].list = RemoveAt(@, i)], Subtree(c, s))

\* raw::config_setting_remove(parent, name)
config_setting_remove(c, parent, name) ==
    IF parent = NULL THEN [c |-> c, ret |-> CONFIG_FALSE]
    ELSE IF c.mem[parent].type # CONFIG_TYPE_GROUP
    THEN [c |-> c, ret |-> CONFIG_FALSE]
    ELSE LET i == list_search(c, c.mem[parent].list, name)
         IN IF i = 0 THEN [c |-> c, ret |-> CONFIG_FALSE]
            ELSE [c |-> list_remove_destroy(c, parent, i), ret |-> CONFIG_TRUE]

\* config_setting_remove_elem removing the last element whatever idx is.
config_setting_remove_last(c, parent, idx) ==
    IF parent = NULL THEN [c |-> c, ret |-> CONFIG_FALSE]
    ELSE IF ~config_setting_is_aggregate(c, parent)
    THEN [c |-> c, ret |-> CONFIG_FALSE]
    ELSE IF idx >= Len(c.mem[parent].list)
    THEN [c |-> c, ret |-> CONFIG_FALSE]
    ELSE [c   |-> list_remove_destroy(c, parent, Len(c.mem[parent].list)),
          ret |-> CONFIG_TRUE]

\* raw::config_setting_remove_elem(parent, idx)
config_setting_remove_elem(c, parent, idx) ==
    IF parent = NULL THEN [c |-> c, ret |-> CONFIG_FALSE]
    ELSE IF ~config_setting_is_aggregate(c, parent)
    THEN [c |-> c, ret |-> CONFIG_FALSE]
    ELSE IF idx >= Len(c.mem[parent].list)
    THEN [c |-> c, ret |-> CONFIG_FALSE]
    ELSE [c |-> list_remove_destroy(c, parent, idx + 1), ret |-> CONFIG_TRUE]

\* raw::config_setting_set_int
config_setting_set_int(c, s, value) ==
    IF c.mem[s].type \in {CONFIG_TYPE_NONE, CONFIG_TYPE_INT}
    THEN [c |-> [c EXCEPT !.mem[s].type = CONFIG_TYPE_INT, !.mem[s].ival = value],
          ret |-> CONFIG_TRUE]
    ELSE [c |-> c, ret |-> CONFIG_FALSE]

\* raw::config_setting_set_int64
config_setting_set_int64(c, s, value) ==
    IF c.mem[s].type \in {CONFIG_TYPE_NONE, CONFIG_TYPE_INT64}
    THEN [c |-> [c EXCEPT !.mem[s].type = CONFIG_TYPE_INT64, !.mem[s].llval = value],
          ret |-> CONFIG_TRUE]
    ELSE [c |-> c, ret |-> CONFIG_FALSE]

\* raw::config_setting_set_float
config_setting_set_float(c, s, value) ==
    IF c.mem[s].type \in {CONFIG_TYPE_NONE, CONFIG_TYPE_FLOAT}
    THEN [c |-> [c EXCEPT !.mem[s].type = CONFIG_TYPE_FLOAT, !.mem[s].fval = value],
          ret |-> CONFIG_TRUE]
    ELSE [c |-> c, ret |-> CONFIG_FALSE]

\* raw::config_setting_set_bool
config_setting_set_bool(c, s, value) ==
    IF c.mem[s].type \in {CONFIG_TYPE_NONE, CONFIG_TYPE_BOOL}
    THEN [c |-> [c EXCEPT !.mem[s].type = CONFIG_TYPE_BOOL, !.mem[s].ival = value],
          ret |-> CONFIG_TRUE]
    ELSE [c |-> c, ret |-> CONFIG_FALSE]

\* raw::config_setting_set_string
config_setting_set_string(c, s, value) ==
    IF c.mem[s].type \in {CONFIG_TYPE_NONE, CONFIG_TYPE_STRING}
    THEN [c |-> [c EXCEPT !.mem[s].type = CONFIG_TYPE_STRING,
                          !.mem[s].sval = Some(value)],
          ret |-> CONFIG_TRUE]
    ELSE [c |-> c, ret |-> CONFIG_FALSE]

\* raw::config_setting_get_int: 0 unless the setting holds an int, or an
\* int64 within the int range (every llval of the model is within it).
config_setting_get_int(c, s) ==
    CASE c.mem[s].type = CONFIG_TYPE_INT -> c.mem[s].ival
      [] c.mem[s].type = CONFIG_TYPE_INT64 ->
            IF c.mem[s].llval >= -INT_MAX - 1 /\ c.mem[s].llval <= INT_MAX
            THEN c.mem[s].llval ELSE 0
      [] OTHER -> 0

\* raw::config_setting_get_int64
config_setting_get_int64(c, s) ==
    CASE c.mem[s].type = CONFIG_TYPE_INT64 -> c.mem[s].llval
      [] c.mem[s].type = CONFIG_TYPE_INT -> c.mem[s].ival
      [] OTHER -> 0

\* raw::config_setting_get_float
config_setting_get_float(c, s) ==
    IF c.mem[s].type = CONFIG_TYPE_FLOAT THEN c.mem[s].fval ELSE "0.0"

\* raw::config_setting_get_bool
config_setting_get_bool(c, s) ==
    IF c.mem[s].type = CONFIG_TYPE_BOOL THEN c.mem[s].ival ELSE 0

\* raw::config_setting_get_string: a null pointer unless a string is held.
config_setting_get_string(c, s) ==
    IF c.mem[s].type = CONFIG_TYPE_STRING THEN c.mem[s].sval ELSE None

\* raw::config_init: an empty root group, no name, no parent.
config_init ==
    [root |-> 1,
     mem  |-> [p \in Ptrs |-> IF p = 1 THEN [Blank EXCEPT !.type = CONFIG_TYPE_GROUP]
                              ELSE Blank],
     live |-> {1},
     brk  |-> 2]

\* libconfig config_clear: the whole tree is destroyed and a fresh empty
\* root group takes its place.
config_clear(c) ==
    LET r == c.brk
        d == Free(c, c.live)
    IN [d EXCEPT !.root = r,
                 !.mem[r] = [Blank EXCEPT !.type = CONFIG_TYPE_GROUP],
                 !.live = {r},
                 !.brk = @ + 1]


\* ------------------------------------------------------------------------
\* Texts.  A text is the sequence of its lexemes and a lexeme the sequence
\* of its characters; the content of a string literal and the digits of a
\* float literal are one element each.
\* ------------------------------------------------------------------------
Quote == "\""
TrueLexeme == <<"t", "r", "u", "e">>
FalseLexeme == <<"f", "a", "l", "s", "e">>
Punctuation == {"=", ":", ";", ",", "{", "}", "[", "]", "(", ")"}

TextInt   == << <<"a">>, <<"=">>, <<"4", "2">>, <<";">> >>
TextGroup == << <<"b">>, <<"=">>, <<"{">>, <<"a">>, <<"=">>,
                <<Quote, "hi", Quote>>, <<";">>, <<"}">>, <<";">> >>
TextBad   == << <<"a">>, <<"=">>, <<"4", "2">>, <<";">>, <<"b">>, <<"=">>,
                <<";">> >>
TextEmpty == << >>
Texts == {TextInt, TextGroup, TextBad, TextEmpty}

\* printf("%d") / printf("%lld") of n.
RECURSIVE DecimalOf(_)
DecimalOf(n) ==
    IF n < 10 THEN <<DecimalDigits[n + 1]>>
    ELSE DecimalOf(n \div 10) \o <<DecimalDigits[(n % 10) + 1]>>

FormatInt(n) == IF n < 0 THEN <<"-">> \o DecimalOf(-n) ELSE DecimalOf(n)

\* strtol / strtoll of a lexeme: an optional sign, then the digits.
strtol(lx) == IF Head(lx) = "-" THEN -atoi(Tail(lx)) ELSE atoi(lx)

\* libconfig's writer (config_write_file -> __config_write_value): the
\* lexemes of the value of setting s.  Members of a group are written
\* "name = value ;", elements of an array or list are separated by ",".
RECURSIVE WriteValue(_, _)
RECURSIVE WriteElements(_, _, _)
RECURSIVE WriteMembers(_, _, _)
WriteValue(c, s) ==
    CASE c.mem[s].type = CONFIG_TYPE_BOOL ->
            <<IF c.mem[s].ival # 0 THEN TrueLexeme ELSE FalseLexeme>>
      [] c.mem[s].type = CONFIG_TYPE_INT -> <<FormatInt(c.mem[s].ival)>>
      [] c.mem[s].type = CONFIG_TYPE_INT64 ->
            <<FormatInt(c.mem[s].llval) \o <<"L">> >>
      [] c.mem[s].type = CONFIG_TYPE_FLOAT -> << <<c.mem[s].fval>> >>
      [] c.mem[s].type = CONFIG_TYPE_STRING ->
            << <<Quote, IF c.mem[s].sval = None THEN "" ELSE c.mem[s].sval[1],
                 Quote>> >>
      [] c.mem[s].type = CONFIG_TYPE_ARRAY ->
            << <<"[">> >> \o WriteElements(c, c.mem[s].list, 1) \o << <<"]">> >>
      [] c.mem[s].type = CONFIG_TYPE_LIST ->
            << <<"(">> >> \o WriteElements(c, c.mem[s].list, 1) \o << <<")">> >>
      [] c.mem[s].type = CONFIG_TYPE_GROUP ->
            << <<"{">> >> \o WriteMembers(c, c.mem[s].list, 1) \o << <<"}">> >>
      [] OTHER -> << >>

WriteElements(c, list, i) ==
    IF i > Len(list) THEN << >>
    ELSE WriteValue(c, list[i])
            \o (IF i < Len(list) THEN << <<",">> >> ELSE << >>)
            \o WriteElements(c, list, i + 1)

WriteMembers(c, list, i) ==
    IF i > Len(list) THEN << >>
    ELSE (IF c.mem[list[i]].name = None THEN << >>
          ELSE <<c.mem[list[i]].name[1], <<"=">> >>)
            \o WriteValue(c, list[i]) \o << <<";">> >>
            \o WriteMembers(c, list, i + 1)

\* libconfig config_write: the members of the root group.
config_write(c) == WriteMembers(c, c.mem[c.root].list, 1)

\* raw::config_write_file: the file is replaced by the text of the tree;
\* CONFIG_FALSE when the file cannot be opened for writing.
config_write_file(c, files, file_name, writable) ==
    IF writable
    THEN [files |-> [files EXCEPT ![file_name] = Some(config_write(c))],
          ret |-> CONFIG_TRUE]
    ELSE [files |-> files, ret |-> CONFIG_FALSE]

\* ------------------------------------------------------------------------
\* The parsing engine.  A text is parsed into the settings it adds, in
\* order: each instruction adds one setting under the root (par = 0) or
\* under the par-th setting added before it.  ok tells whether the grammar
\* accepts the whole text; the settings before the error stay in the tree.
\* ------------------------------------------------------------------------
Instr(par, name, type, val) == [par |-> par, name |-> name, type |-> type, val |-> val]

\* libconfig's scanner: the token a lexeme is.
TokenKind(lx) ==
    CASE lx \in {TrueLexeme, FalseLexeme} -> "boolean"
      [] Head(lx) = Quote -> "string"
      [] isdigit(Head(lx)) \/ Head(lx) = "-" ->
            IF lx[Len(lx)] = "L" THEN "integer64" ELSE "integer"
      [] Len(lx) = 1 /\ Head(lx) \in Punctuation -> Head(lx)
      [] isalpha(Head(lx)) \/ Head(lx) = "*" -> "name"
      [] OTHER -> "float"

\* The setting type of a value token (CONFIG_TYPE_NONE for another token).
TokenType(kind) ==
    CASE kind = "boolean"   -> CONFIG_TYPE_BOOL
      [] kind = "string"    -> CONFIG_TYPE_STRING
      [] kind = "integer"   -> CONFIG_TYPE_INT
      [] kind = "integer64" -> CONFIG_TYPE_INT64
      [] kind = "float"     -> CONFIG_TYPE_FLOAT
      [] kind = "{"         -> CONFIG_TYPE_GROUP
      [] kind = "["         -> CONFIG_TYPE_ARRAY
      [] kind = "("         -> CONFIG_TYPE_LIST
      [] OTHER -> CONFIG_TYPE_NONE

\* The value a scalar token stands for.
TokenValue(lx) ==
    CASE TokenKind(lx) = "boolean" ->
            IF lx = TrueLexeme THEN CONFIG_TRUE ELSE CONFIG_FALSE
      [] TokenKind(lx) = "string" -> lx[2]
      [] TokenKind(lx) \in {"integer", "integer64"} -> strtol(lx)
      [] TokenKind(lx) = "float" -> Head(lx)
      [] OTHER -> 0

\* The token that closes a group, array or list.
Closer(type) ==
    CASE type = CONFIG_TYPE_GROUP -> "}"
      [] type = CONFIG_TYPE_ARRAY -> "]"
      [] OTHER -> ")"

\* libconfig's grammar.  stack holds the open aggregates, the root group
\* first: idx is the instruction that made it (0 for the root), elt the
\* type of the elements an array has so far.  item tells whether a setting
\* or value is expected next, or a separator.  A group member is
\* "name = value" or "name : value" with an optional ";" or "," after it; an
\* array takes scalar values of one type only (config_setting_set_*_elem
\* refuses another type: "mismatched element type in array").
RECURSIVE ParseFrom(_, _, _, _, _)
RECURSIVE ParseValue(_, _, _, _, _)
ParseFrom(toks, i, stack, prog, item) ==
    LET top == stack[Len(stack)]
        kind == IF i <= Len(toks) THEN TokenKind(toks[i]) ELSE "eof"
        pop == SubSeq(stack, 1, Len(stack) - 1)
        Fail == [ok |-> FALSE, prog |-> prog]
    IN IF kind = "eof" THEN [ok |-> Len(stack) = 1, prog |-> prog]
       ELSE IF top.type = CONFIG_TYPE_GROUP
       THEN IF ~item
            THEN ParseFrom(toks, IF kind \in {";", ","} THEN i + 1 ELSE i,
                           stack, prog, TRUE)
            ELSE IF kind = "}"
            THEN IF Len(stack) > 1
                 THEN ParseFrom(toks, i + 1, pop, prog, FALSE)
                 ELSE Fail
            ELSE IF /\ kind = "name"
                    /\ i + 1 <= Len(toks)
                    /\ TokenKind(toks[i + 1]) \in {"=", ":"}
            THEN ParseValue(toks, i + 2, stack, prog, toks[i])
            ELSE Fail
       ELSE IF kind = Closer(top.type)
            THEN ParseFrom(toks, i + 1, pop, prog, FALSE)
            ELSE IF ~item
            THEN IF kind = ","
                 THEN ParseFrom(toks, i + 1, stack, prog, TRUE)
                 ELSE Fail
            ELSE ParseValue(toks, i, stack, prog, << >>)

ParseValue(toks, j, stack, prog, name) ==
    LET top == stack[Len(stack)]
        type == IF j <= Len(toks) THEN TokenType(TokenKind(toks[j]))
                ELSE CONFIG_TYPE_NONE
        Fail == [ok |-> FALSE, prog |-> prog]
        val == IF type \in ScalarTypes THEN TokenValue(toks[j]) ELSE 0
        added == Append(prog, Instr(top.idx, name, type, val))
    IN IF type = CONFIG_TYPE_NONE THEN Fail
       ELSE IF type \in AggregateTypes
       THEN IF top.type = CONFIG_TYPE_ARRAY THEN Fail
            ELSE ParseFrom(toks, j + 1,
                           Append(stack, [idx |-> Len(added), type |-> type,
                                          elt |-> CONFIG_TYPE_NONE]),
                           added, TRUE)
       ELSE IF /\ top.type = CONFIG_TYPE_ARRAY
               /\ top.elt \notin {CONFIG_TYPE_NONE, type}
       THEN Fail
       ELSE ParseFrom(toks, j + 1,
                      [stack EXCEPT ![Len(stack)].elt = type], added, FALSE)

\* The parse of a whole text.
Parse(text) ==
    ParseFrom(text, 1, <<[idx |-> 0, type |-> CONFIG_TYPE_GROUP,
                          elt |-> CONFIG_TYPE_NONE]>>, << >>, TRUE)

\* The setter of a scalar type.
SetValue(c, s, type, val) ==
    CASE type = CONFIG_TYPE_INT    -> config_setting_set_int(c, s, val)
      [] type = CONFIG_TYPE_INT64  -> config_setting_set_int64(c, s, val)
      [] type = CONFIG_TYPE_FLOAT  -> config_setting_set_float(c, s, val)
      [] type = CONFIG_TYPE_BOOL   -> config_setting_set_bool(c, s, val)
      [] type = CONFIG_TYPE_STRING -> config_setting_set_string(c, s, val)
      [] OTHER -> [c |-> c, ret |-> CONFIG_TRUE]

\* The grammar's actions: the settings of prog[i..] added to the tree whose
\* root is c.root; made[k] is the k-th setting added by this parse.
RECURSIVE RunParse(_, _, _, _)
RunParse(c, prog, i, made) ==
    IF i > Len(prog) THEN c
    ELSE LET ins == prog[i]
             par == IF ins.par = 0 THEN c.root ELSE made[ins.par]
             a   == config_setting_add(c, par, ins.name, ins.type)
             b   == SetValue(a.c, a.ret, ins.type, ins.val)
         IN RunParse(b.c, prog, i + 1, Append(made, a.ret))

\* config_read_string parsing into the tree that is there.
config_read_string_no_clear(c, text) ==
    LET p == Parse(text)
    IN [c   |-> RunParse(c, p.prog, 1, <<>>),
        ret |-> IF p.ok THEN CONFIG_TRUE ELSE CONFIG_FALSE]

\* raw::config_read_string: the old tree is cleared, then the text is parsed.
config_read_string(c, text) ==
    LET p == Parse(text)
    IN [c   |-> RunParse(config_clear(c), p.prog, 1, <<>>),
        ret |-> IF p.ok THEN CONFIG_TRUE ELSE CONFIG_FALSE]

\* raw::config_read_file on a file that holds text.
config_read_file(c, text) == config_read_string(c, text)

\* ------------------------------------------------------------------------
\* Result<()> and Errors
\* ------------------------------------------------------------------------
Ok == <<"Ok">>
Err(e) == <<"Err", e>>
ParseError == "ParseError"
FileNotExists == "FileNotExists"
ElementNotExists == "ElementNotExists"
DeleteError == "DeleteError"
SaveError == "SaveError"

\* ------------------------------------------------------------------------
\* OptionReader.  A view is its element : Option<*mut config_setting_t>.
\* ------------------------------------------------------------------------
OptionReader_new(elem) == elem

OptionReader_is_section(c, self) ==
    IF self = None THEN None
    ELSE Some(config_setting_is_group(c, self[1]) = CONFIG_TRUE)

OptionReader_is_array(c, self) ==
    IF self = None THEN None
    ELSE Some(config_setting_is_array(c, self[1]) = CONFIG_TRUE)

OptionReader_is_list(c, self) ==
    IF self = None THEN None
    ELSE Some(config_setting_is_list(c, self[1]) = CONFIG_TRUE)

OptionReader_parent(c, self) ==
    IF self = None THEN None
    ELSE LET result == config_setting_parent(c, self[1])
         IN IF result = NULL THEN None ELSE Some(OptionReader_new(Some(result)))

IntegerType == "IntegerType"
Int64Type   == "Int64Type"
FloatType   == "FloatType"
StringType  == "StringType"
BooleanType == "BooleanType"

OptionReader_value_type(c, self) ==
    IF self = None THEN None
    ELSE LET result == config_setting_type(c, self[1])
         IN CASE result = CONFIG_TYPE_INT    -> Some(IntegerType)
              [] result = CONFIG_TYPE_INT64  -> Some(Int64Type)
              [] result = CONFIG_TYPE_FLOAT  -> Some(FloatType)
              [] result = CONFIG_TYPE_STRING -> Some(StringType)
              [] result = CONFIG_TYPE_BOOL   -> Some(BooleanType)
              [] OTHER -> None

\* value resolving the first segment of the path only.
OptionReader_value_first(c, self, path) ==
    IF self = None THEN None
    ELSE LET option == config_setting_lookup(c, self[1], Segment(path))
         IN IF option = NULL THEN None ELSE Some(OptionReader_new(Some(option)))

OptionReader_value(c, self, path) ==
    IF self = None THEN None
    ELSE LET option == config_setting_lookup(c, self[1], path)
         IN IF option = NULL THEN None ELSE Some(OptionReader_new(Some(option)))

OptionReader_as_int32(c, self) ==
    IF self = None THEN None ELSE Some(config_setting_get_int(c, self[1]))

\* as_int32_default with 0 for the fallback.
OptionReader_as_int32_default_zero(c, self, def) ==
    LET r == OptionReader_as_int32(c, self) IN IF r # None THEN r[1] ELSE 0

OptionReader_as_int32_default(c, self, def) ==
    LET r == OptionReader_as_int32(c, self) IN IF r # None THEN r[1] ELSE def

OptionReader_as_int64(c, self) ==
    IF self = None THEN None ELSE Some(config_setting_get_int64(c, self[1]))

OptionReader_as_int64_default(c, self, def) ==
    LET r == OptionReader_as_int64(c, self) IN IF r # None THEN r[1] ELSE def

OptionReader_as_float64(c, self) ==
    IF self = None THEN None ELSE Some(config_setting_get_float(c, self[1]))

OptionReader_as_float_default(c, self, def) ==
    LET r == OptionReader_as_float64(c, self) IN IF r # None THEN r[1] ELSE def

OptionReader_as_bool(c, self) ==
    IF self = None THEN None
    ELSE Some(config_setting_get_bool(c, self[1]) = CONFIG_TRUE)

OptionReader_as_bool_default(c, self, def) ==
    LET r == OptionReader_as_bool(c, self) IN IF r # None THEN r[1] ELSE def

OptionReader_as_string(c, self) ==
    IF self = None THEN None
    ELSE LET str == config_setting_get_string(c, self[1])
         IN IF str = None THEN None ELSE Some(str[1])

OptionReader_as_string_default(c, self, def) ==
    LET r == OptionReader_as_string(c, self) IN IF r # None THEN r[1] ELSE def

\* ------------------------------------------------------------------------
\* OptionWriter.  Each operation yields the config it leaves and its result.
\* ------------------------------------------------------------------------
OptionWriter_new(elem) == elem

\* delete removing every node at its index, a group too.
OptionWriter_delete_by_index(c, self) ==
    IF self = None THEN [c |-> c, ret |-> Err(ElementNotExists)]
    ELSE LET parent == OptionReader_parent(c, OptionReader_new(self))
             index == config_setting_index(c, self[1])
         IN IF parent = None THEN [c |-> c, ret |-> Err(DeleteError)]
            ELSE LET result == config_setting_remove_elem(c, parent[1][1],
                                                          as_u32(index))
                 IN [c   |-> result.c,
                     ret |-> IF result.ret = CONFIG_TRUE THEN Ok
                             ELSE Err(DeleteError)]

OptionWriter_delete(c, self) ==
    IF self = None THEN [c |-> c, ret |-> Err(ElementNotExists)]
    ELSE IF OptionReader_is_section(c, OptionReader_new(self))[1]
    THEN LET name == config_setting_name(c, self[1])
             parent == OptionReader_parent(c, OptionReader_new(self))
         IN IF name = None THEN [c |-> c, ret |-> Err(DeleteError)]
            ELSE IF parent = None THEN [c |-> c, ret |-> Err(DeleteError)]
            ELSE LET result == config_setting_remove(c, parent[1][1], name)
                 IN [c   |-> result.c,
                     ret |-> IF result.ret = CONFIG_TRUE THEN Ok
                             ELSE Err(DeleteError)]
    ELSE LET parent == OptionReader_parent(c, OptionReader_new(self))
             index == config_setting_index(c, self[1])
         IN IF parent = None THEN [c |-> c, ret |-> Err(DeleteError)]
            ELSE LET result == config_setting_remove_elem(c, parent[1][1],
                                                          as_u32(index))
                 IN [c   |-> result.c,
                     ret |-> IF result.ret = CONFIG_TRUE THEN Ok
                             ELSE Err(DeleteError)]

\* create_section, create_array and create_list differ in the type only.
CreateAggregate(c, self, path, type) ==
    IF self = None THEN [c |-> c, ret |-> None]
    ELSE LET option == config_setting_add(c, self[1], path, type)
         IN IF option.ret = NULL THEN [c |-> option.c, ret |-> None]
            ELSE [c |-> option.c, ret |-> Some(OptionWriter_new(Some(option.ret)))]

OptionWriter_create_section(c, self, path) ==
    CreateAggregate(c, self, path, CONFIG_TYPE_GROUP)

OptionWriter_create_array(c, self, path) ==
    CreateAggregate(c, self, path, CONFIG_TYPE_ARRAY)

OptionWriter_create_list(c, self, path) ==
    CreateAggregate(c, self, path, CONFIG_TYPE_LIST)

\* write_int32 returning a writer of the new scalar.
OptionWriter_write_int32_child(c, self, name, value) ==
    IF self = None THEN [c |-> c, ret |-> None]
    ELSE LET option == config_setting_add(c, self[1], name, CONFIG_TYPE_INT)
         IN IF option.ret = NULL THEN [c |-> option.c, ret |-> None]
            ELSE LET result == config_setting_set_int(option.c, option.ret, value)
                 IN [c   |-> result.c,
                     ret |-> IF result.ret = CONFIG_TRUE
                             THEN Some(Some(option.ret)) ELSE None]

OptionWriter_write_int32(c, self, name, value) ==
    IF self = None THEN [c |-> c, ret |-> None]
    ELSE LET option == config_setting_add(c, self[1], name, CONFIG_TYPE_INT)
         IN IF option.ret = NULL THEN [c |-> option.c, ret |-> None]
            ELSE LET result == config_setting_set_int(option.c, option.ret, value)
                 IN [c   |-> result.c,
                     ret |-> IF result.ret = CONFIG_TRUE THEN Some(self) ELSE None]

OptionWriter_write_int64(c, self, name, value) ==
    IF self = None THEN [c |-> c, ret |-> None]
    ELSE LET option == config_setting_add(c, self[1], name, CONFIG_TYPE_INT64)
         IN IF option.ret = NULL THEN [c |-> option.c, ret |-> None]
            ELSE LET result == config_setting_set_int64(option.c, option.ret, value)
                 IN [c   |-> result.c,
                     ret |-> IF result.ret = CONFIG_TRUE THEN Some(self) ELSE None]

OptionWriter_write_float64(c, self, name, value) ==
    IF self = None THEN [c |-> c, ret |-> None]
    ELSE LET option == config_setting_add(c, self[1], name, CONFIG_TYPE_FLOAT)
         IN IF option.ret = NULL THEN [c |-> option.c, ret |-> None]
            ELSE LET result == config_setting_set_float(option.c, option.ret, value)
                 IN [c   |-> result.c,
                     ret |-> IF result.ret = CONFIG_TRUE THEN Some(self) ELSE None]

OptionWriter_write_bool(c, self, name, value) ==
    IF self = None THEN [c |-> c, ret |-> None]
    ELSE LET option == config_setting_add(c, self[1], name, CONFIG_TYPE_BOOL)
             val == IF value THEN CONFIG_TRUE ELSE CONFIG_FALSE
         IN IF option.ret = NULL THEN [c |-> option.c, ret |-> None]
            ELSE LET result == config_setting_set_bool(option.c, option.ret, val)
                 IN [c   |-> result.c,
                     ret |-> IF result.ret = CONFIG_TRUE THEN Some(self) ELSE None]

OptionWriter_write_string(c, self, name, value) ==
    IF self = None THEN [c |-> c, ret |-> None]
    ELSE LET option == config_setting_add(c, self[1], name, CONFIG_TYPE_STRING)
         IN IF option.ret = NULL THEN [c |-> option.c, ret |-> None]
            ELSE LET result == config_setting_set_string(option.c, option.ret, value)
                 IN [c   |-> result.c,
                     ret |-> IF result.ret = CONFIG_TRUE THEN Some(self) ELSE None]

\* OptionReader::delete
OptionReader_delete(c, self) == OptionWriter_delete(c, OptionWriter_new(self))

\* ------------------------------------------------------------------------
\* Config.  Each operation yields the config and root_element it leaves and
\* its result.
\* ------------------------------------------------------------------------
Config_new ==
    LET cfg == config_init
        option == config_root_setting(cfg)
    IN [config |-> cfg,
        root_element |-> IF option = NULL THEN None ELSE Some(option)]

\* load_from_file clearing the root binding when the file does not exist.
Config_load_from_file_unbinding(c, re, files, file_name) ==
    IF files[file_name] # None
    THEN LET result == config_read_file(c, files[file_name][1])
         IN IF result.ret = CONFIG_TRUE
            THEN [config |-> result.c,
                  root_element |-> Some(config_root_setting(result.c)),
                  ret |-> Ok]
            ELSE [config |-> result.c, root_element |-> None,
                  ret |-> Err(ParseError)]
    ELSE [config |-> c, root_element |-> None, ret |-> Err(FileNotExists)]

Config_load_from_file(c, re, files, file_name) ==
    IF files[file_name] # None
    THEN LET result == config_read_file(c, files[file_name][1])
         IN IF result.ret = CONFIG_TRUE
            THEN [config |-> result.c,
                  root_element |-> Some(config_root_setting(result.c)),
                  ret |-> Ok]
            ELSE [config |-> result.c, root_element |-> None,
                  ret |-> Err(ParseError)]
    ELSE [config |-> c, root_element |-> re, ret |-> Err(FileNotExists)]

Config_save_to_file(c, files, file_name, writable) ==
    LET result == config_write_file(c, files, file_name, writable)
    IN [fs  |-> result.files,
        ret |-> IF result.ret = CONFIG_TRUE THEN Ok ELSE Err(SaveError)]

\* load_from_string binding the root whatever the parser returned.
Config_load_from_string_binding(c, re, config_string) ==
    LET result == config_read_string(c, config_string)
        option == config_root_setting(result.c)
    IN IF result.ret = CONFIG_TRUE
       THEN [config |-> result.c, root_element |-> Some(option), ret |-> Ok]
       ELSE [config |-> result.c, root_element |-> Some(option),
             ret |-> Err(ParseError)]

Config_load_from_string(c, re, config_string) ==
    LET result == config_read_string(c, config_string)
    IN IF result.ret = CONFIG_TRUE
       THEN LET option == config_root_setting(result.c)
            IN IF option = NULL
               THEN [config |-> result.c, root_element |-> None,
                     ret |-> Err(ParseError)]
               ELSE [config |-> result.c, root_element |-> Some(option),
                     ret |-> Ok]
       ELSE [config |-> result.c, root_element |-> None, ret |-> Err(ParseError)]

Config_value(c, re, path) == OptionReader_value(c, OptionReader_new(re), path)

Config_create_section(c, re, path) ==
    OptionWriter_create_section(c, OptionWriter_new(re), path)

\* ------------------------------------------------------------------------
\* The inputs of the calls.
\* ------------------------------------------------------------------------
NameA  == <<"a">>
NameB  == <<"b">>
NameAB == <<"a", ".", "b">>       \* "a.b": not a valid setting name
Names == {NameA, NameB, NameAB}

Paths == {<<>>, NameA, NameB, <<"b", ".", "a">>, <<"[", "0", "]">>,
          <<"a", ".", "[", "1", "]">>}

Int32Values == {42}
Int64Values == {7}
FloatValues == {"1.5"}
StringValues == {"hi"}

Int32Defaults == {-1}
Int64Defaults == {-2}
FloatDefaults == {"9.5"}
StringDefaults == {"dflt"}

FileMissing == "missing.cfg"
FileGood == "good.cfg"
FileBad == "bad.cfg"
FileNames == {FileMissing, FileGood, FileBad}

\* ------------------------------------------------------------------------
\* Views.  An OptionReader or OptionWriter holds element: None, or the
\* address of a block.  value() hands out readers of the blocks of the tree,
\* create_* hand out writers of the blocks they make, and Config::value and
\* Config::create_section build a view of the root binding, which is None
\* after a failed load.  A view is a copy of an address, so it outlasts its
\* block.  Every method is called here on every such value of element: None
\* and the address of every block that was ever allocated.
\* ------------------------------------------------------------------------
Views == {None} \cup {Some(p) : p \in 1..(config.brk - 1)}

Unbound == "Unbound"
Bound == "Bound"
Dangling == "Dangling"

ViewState(self) ==
    IF self = None THEN Unbound
    ELSE IF self[1] \in config.live THEN Bound ELSE Dangling

\* What the address of a view denotes when libconfig dereferences it.  The
\* address of a live block denotes that block.  The address of a freed block
\* is a dangling pointer: the memory may still hold the freed block's
\* contents (the address itself), or may have been handed out again and then
\* holds some live block.
Denotes(self, stale) ==
    IF self = None THEN {None}
    ELSE IF self[1] \in config.live THEN {self}
    ELSE {Some(t) : t \in config.live \cup (IF stale THEN {self[1]} ELSE {})}

Call(op, self, name, val, ret) ==
    [op |-> op, self |-> self, st |-> ViewState(self), name |-> name,
     val |-> val, ret |-> ret]

\* The caller holds no result: it is between two calls.
Idle ==
    [op |-> "idle", self |-> None, st |-> Unbound, name |-> <<>>, val |-> 0,
     ret |-> None]

Init ==
    /\ config = Config_new.config
    /\ root_element = Config_new.root_element
    /\ fs = [f \in FileNames |->
                CASE f = FileGood -> Some(TextGroup)
                  [] f = FileBad -> Some(TextBad)
                  [] OTHER -> None]
    /\ last = Idle

\* ------------------------------------------------------------------------
\* Config
\* ------------------------------------------------------------------------
LoadFromFile(file_name) ==
    /\ last.op = "idle"
    /\ LET r == Config_load_from_file(config, root_element, fs, file_name)
       IN /\ config' = r.config
          /\ root_element' = r.root_element
          /\ last' = Call("load_from_file", root_element, <<>>, file_name, r.ret)
    /\ UNCHANGED fs

LoadFromString(text) ==
    /\ last.op = "idle"
    /\ LET r == Config_load_from_string(config, root_element, text)
       IN /\ config' = r.config
          /\ root_element' = r.root_element
          /\ last' = Call("load_from_string", root_element, <<>>, text, r.ret)
    /\ UNCHANGED fs

SaveToFile(file_name, writable) ==
    /\ last.op = "idle"
    /\ LET r == Config_save_to_file(config, fs, file_name, writable)
       IN /\ fs' = r.fs
          /\ last' = Call("save_to_file", root_element, <<>>, file_name, r.ret)
    /\ UNCHANGED <<config, root_element>>

ConfigValue(path) ==
    /\ last.op = "idle"
    /\ \E t \in Denotes(root_element, TRUE) :
          last' = Call("Config::value", root_element, path, 0,
                       Config_value(config, t, path))
    /\ UNCHANGED <<config, root_element, fs>>

ConfigCreateSection(path) ==
    /\ last.op = "idle"
    /\ \E t \in Denotes(root_element, FALSE) :
          LET r == Config_create_section(config, t, path)
          IN /\ config' = r.c
             /\ last' = Call("Config::create_section", root_element, path, 0, r.ret)
    /\ UNCHANGED <<root_element, fs>>

\* ------------------------------------------------------------------------
\* OptionWriter
\* ------------------------------------------------------------------------
Delete(self) ==
    /\ last.op = "idle"
    /\ \E t \in Denotes(self, TRUE) :
          LET r == OptionWriter_delete(config, t)
          IN /\ config' = r.c
             /\ last' = Call("delete", self, <<>>, 0, r.ret)
    /\ UNCHANGED <<root_element, fs>>

CreateSection(self, path) ==
    /\ last.op = "idle"
    /\ \E t \in Denotes(self, FALSE) :
          LET r == OptionWriter_create_section(config, t, path)
          IN /\ config' = r.c
             /\ last' = Call("create_section", self, path, 0, r.ret)
    /\ UNCHANGED <<root_element, fs>>

CreateArray(self, path) ==
    /\ last.op = "idle"
    /\ \E t \in Denotes(self, FALSE) :
          LET r == OptionWriter_create_array(config, t, path)
          IN /\ config' = r.c
             /\ last' = Call("create_array", self, path, 0, r.ret)
    /\ UNCHANGED <<root_element, fs>>

CreateList(self, path) ==
    /\ last.op = "idle"
    /\ \E t \in Denotes(self, FALSE) :
          LET r == OptionWriter_create_list(config, t, path)
          IN /\ config' = r.c
             /\ last' = Call("create_list", self, path, 0, r.ret)
    /\ UNCHANGED <<root_element, fs>>

WriteInt32(self, name, value) ==
    /\ last.op = "idle"
    /\ \E t \in Denotes(self, FALSE) :
          LET r == OptionWriter_write_int32(config, t, name, value)
          IN /\ config' = r.c
             /\ last' = Call("write_int32", self, name, value, r.ret)
    /\ UNCHANGED <<root_element, fs>>

WriteInt64(self, name, value) ==
    /\ last.op = "idle"
    /\ \E t \in Denotes(self, FALSE) :
          LET r == OptionWriter_write_int64(config, t, name, value)
          IN /\ config' = r.c
             /\ last' = Call("write_int64", self, name, value, r.ret)
    /\ UNCHANGED <<root_element, fs>>

WriteFloat64(self, name, value) ==
    /\ last.op = "idle"
    /\ \E t \in Denotes(self, FALSE) :
          LET r == OptionWriter_write_float64(config, t, name, value)
          IN /\ config' = r.c
             /\ last' = Call("write_float64", self, name, value, r.ret)
    /\ UNCHANGED <<root_element, fs>>

WriteBool(self, name, value) ==
    /\ last.op = "idle"
    /\ \E t \in Denotes(self, FALSE) :
          LET r == OptionWriter_write_bool(config, t, name, value)
          IN /\ config' = r.c
             /\ last' = Call("write_bool", self, name, value, r.ret)
    /\ UNCHANGED <<root_element, fs>>

WriteString(self, name, value) ==
    /\ last.op = "idle"
    /\ \E t \in Denotes(self, FALSE) :
          LET r == OptionWriter_write_string(config, t, name, value)
          IN /\ config' = r.c
             /\ last' = Call("write_string", self, name, value, r.ret)
    /\ UNCHANGED <<root_element, fs>>

\* ------------------------------------------------------------------------
\* OptionReader
\* ------------------------------------------------------------------------
ReaderDelete(self) ==
    /\ last.op = "idle"
    /\ \E t \in Denotes(self, TRUE) :
          LET r == OptionReader_delete(config, t)
          IN /\ config' = r.c
             /\ last' = Call("OptionReader::delete", self, <<>>, 0, r.ret)
    /\ UNCHANGED <<root_element, fs>>

\* A call that reads only: rets are its results on the blocks the view may
\* denote.  (A _default call returns a plain value v, which last.ret holds
\* as <<v>>.)
Read(op, self, name, val, rets) ==
    /\ last.op = "idle"
    /\ \E r \in rets : last' = Call(op, self, name, val, r)
    /\ UNCHANGED <<config, root_element, fs>>

IsSection(self) ==
    Read("is_section", self, <<>>, 0,
         {OptionReader_is_section(config, t) : t \in Denotes(self, TRUE)})

IsArray(self) ==
    Read("is_array", self, <<>>, 0,
         {OptionReader_is_array(config, t) : t \in Denotes(self, TRUE)})

IsList(self) ==
    Read("is_list", self, <<>>, 0,
         {OptionReader_is_list(config, t) : t \in Denotes(self, TRUE)})

Parent(self) ==
    Read("parent", self, <<>>, 0,
         {OptionReader_parent(config, t) : t \in Denotes(self, TRUE)})

ValueType(self) ==
    Read("value_type", self, <<>>, 0,
         {OptionReader_value_type(config, t) : t \in Denotes(self, TRUE)})

Value(self, path) ==
    Read("value", self, path, 0,
         {OptionReader_value(config, t, path) : t \in Denotes(self, TRUE)})

AsInt32(self) ==
    Read("as_int32", self, <<>>, 0,
         {OptionReader_as_int32(config, t) : t \in Denotes(self, TRUE)})

AsInt32Default(self, def) ==
    Read("as_int32_default", self, <<>>, def,
         {<<OptionReader_as_int32_default(config, t, def)>> : t \in Denotes(self, TRUE)})

AsInt64(self) ==
    Read("as_int64", self, <<>>, 0,
         {OptionReader_as_int64(config, t) : t \in Denotes(self, TRUE)})

AsInt64Default(self, def) ==
    Read("as_int64_default", self, <<>>, def,
         {<<OptionReader_as_int64_default(config, t, def)>> : t \in Denotes(self, TRUE)})

AsFloat64(self) ==
    Read("as_float64", self, <<>>, 0,
         {OptionReader_as_float64(config, t) : t \in Denotes(self, TRUE)})

AsFloatDefault(self, def) ==
    Read("as_float_default", self, <<>>, def,
         {<<OptionReader_as_float_default(config, t, def)>> : t \in Denotes(self, TRUE)})

AsBool(self) ==
    Read("as_bool", self, <<>>, 0,
         {OptionReader_as_bool(config, t) : t \in Denotes(self, TRUE)})

AsBoolDefault(self, def) ==
    Read("as_bool_default", self, <<>>, def,
         {<<OptionReader_as_bool_default(config, t, def)>> : t \in Denotes(self, TRUE)})

AsString(self) ==
    Read("as_string", self, <<>>, 0,
         {OptionReader_as_string(config, t) : t \in Denotes(self, TRUE)})

AsStringDefault(self, def) ==
    Read("as_string_default", self, <<>>, def,
         {<<OptionReader_as_string_default(config, t, def)>> : t \in Denotes(self, TRUE)})

\* The calls that load or change the tree, and Config::value, on the views V.
\* A step allocates within the first n blocks after the initial root.
Within(n) == config'.brk <= n + 1

\* The caller takes the result of its call and goes on.
Return ==
    /\ last.op # "idle"
    /\ last' = Idle
    /\ UNCHANGED <<config, root_element, fs>>

\* A caller that loads, builds, reads and deletes, one call at a time, with
\* a view of every block.
Next ==
    \/ \E f \in FileNames : LoadFromFile(f) /\ Within(MaxNodes)
    \/ \E text \in Texts : LoadFromString(text) /\ Within(MaxNodes)
    \/ \E path \in Paths : ConfigValue(path)
    \/ \E name \in Names : ConfigCreateSection(name) /\ Within(MaxNodes)
    \/ \E self \in Views : Delete(self)
    \/ \E self \in Views, name \in Names :
          CreateSection(self, name) /\ Within(MaxNodes)
    \/ \E self \in Views, name \in Names :
          CreateArray(self, name) /\ Within(MaxNodes)
    \/ \E self \in Views, name \in Names :
          CreateList(self, name) /\ Within(MaxNodes)
    \/ \E self \in Views, name \in Names, v \in Int32Values :
          WriteInt32(self, name, v) /\ Within(MaxNodes)
    \/ \E self \in Views, name \in Names, v \in Int64Values :
          WriteInt64(self, name, v) /\ Within(MaxNodes)
    \/ \E self \in Views, name \in Names, v \in FloatValues :
          WriteFloat64(self, name, v) /\ Within(MaxNodes)
    \/ \E self \in Views, name \in Names, v \in BOOLEAN :
          WriteBool(self, name, v) /\ Within(MaxNodes)
    \/ \E self \in Views, name \in Names, v \in StringValues :
          WriteString(self, name, v) /\ Within(MaxNodes)
    \/ \E self \in Views : ReaderDelete(self)
    \/ \E self \in Views : IsSection(self)
    \/ \E self \in Views : IsArray(self)
    \/ \E self \in Views : IsList(self)
    \/ \E self \in Views : Parent(self)
    \/ \E self \in Views : ValueType(self)
    \/ \E self \in Views, path \in Paths : Value(self, path)
    \/ \E self \in Views : AsInt32(self)
    \/ \E self \in Views, def \in Int32Defaults : AsInt32Default(self, def)
    \/ \E self \in Views : AsInt64(self)
    \/ \E self \in Views, def \in Int64Defaults : AsInt64Default(self, def)
    \/ \E self \in Views : AsFloat64(self)
    \/ \E self \in Views, def \in FloatDefaults : AsFloatDefault(self, def)
    \/ \E self \in Views : AsBool(self)
    \/ \E self \in Views, def \in BOOLEAN : AsBoolDefault(self, def)
    \/ \E self \in Views : AsString(self)
    \/ \E self \in Views, def \in StringDefaults : AsStringDefault(self, def)
    \/ Return

Spec == Init /\ [][Next]_vars

\* ------------------------------------------------------------------------
\* Properties
\* ------------------------------------------------------------------------
CreateOps == {"create_section", "create_array", "create_list"}
WriteOps == {"write_int32", "write_int64", "write_float64", "write_bool",
             "write_string"}
AddOps == CreateOps \cup WriteOps
LoadOps == {"load_from_file", "load_from_string"}

\* The group a call of AddOps was made on, when its view is bound to one.
OnGroup(call) ==
    /\ call.op \in AddOps
    /\ call.st = Bound
    /\ config.mem[call.self[1]].type = CONFIG_TYPE_GROUP

IsMember(c, group, name) == config_setting_get_member(c, group, Some(name)) # NULL

C3_AlwaysRootGroup ==
    /\ root_element # None
    /\ root_element[1] \in config.live
    /\ config.mem[root_element[1]].type = CONFIG_TYPE_GROUP
    /\ (/\ last.op = "Config::create_section"
        /\ config_validate_name(last.name))
        => (last.ret # None \/ IsMember(config, root_element[1], last.name))

\* C4: load_from_file on a path that does not exist returns FileNotExists
\* and leaves the tree and the root binding as they were.
C4_MissingFileNoChange ==
    [][ (last'.op = "load_from_file" /\ fs[last'.val] = None)
            => /\ last'.ret = Err(FileNotExists)
               /\ config' = config
               /\ root_element' = root_element
      ]_vars

\* load_from_file of the missing file has returned FileNotExists on a tree
\* that holds a setting, and the root binding still reaches that setting.
C4_Witness ==
    /\ last.op = "load_from_file"
    /\ last.val = FileMissing
    /\ last.ret = Err(FileNotExists)
    /\ root_element # None
    /\ Len(config.mem[root_element[1]].list) > 0
    /\ Config_value(config, root_element, NameA) # None

AsOps == {"as_int32", "as_int64", "as_float64", "as_bool", "as_string"}
DefaultOps == {"as_int32_default", "as_int64_default", "as_float_default",
               "as_bool_default", "as_string_default"}
DeleteOps == {"delete", "OptionReader::delete"}
QueryOps == {"is_section", "is_array", "is_list", "parent", "value_type",
             "value"}
ViewOps == QueryOps \cup AsOps \cup DefaultOps \cup DeleteOps \cup AddOps
\* Config::value and Config::create_section are value and create_section on
\* a view of the root binding.
ConfigOps == {"Config::value", "Config::create_section"}

\* The absent outcome of a call on a view: None, the fallback, or an error.
Absent(call) ==
    CASE call.op \in DefaultOps -> call.ret = <<call.val>>
      [] call.op \in DeleteOps  -> call.ret # Ok
      [] OTHER -> call.ret = None

\* C5: once a delete has removed a node, every reading call on a view of a
\* removed node yields the absent outcome.  (No load has replaced the tree
\* while the root is the block config_init made, so the views that dangle
\* then are views of nodes a delete removed.)
C5_RemovedReportsAbsence ==
    (/\ last.op \in QueryOps \cup AsOps \cup DefaultOps
     /\ last.st = Dangling
     /\ config_root_setting(config) = config_root_setting(config_init))
        => Absent(last)

\* The stored types an accessor can take its value from: the requested type,
\* and for the numbers every numeric type.
Numeric == {CONFIG_TYPE_INT, CONFIG_TYPE_INT64, CONFIG_TYPE_FLOAT}
Readable(op) ==
    CASE op = "as_bool"   -> {CONFIG_TYPE_BOOL}
      [] op = "as_string" -> {CONFIG_TYPE_STRING}
      [] OTHER            -> Numeric

\* C6: a typed accessor on a bound view returns None when the node is no
\* scalar or holds a scalar of another type than the requested one.
C6_MismatchReturnsNone ==
    (/\ last.op \in AsOps
     /\ last.st = Bound
     /\ config.mem[last.self[1]].type \notin Readable(last.op))
        => last.ret = None

\* The stored type write_T gives its scalar, and what as_T reads from it.
StoredType(op) ==
    CASE op = "write_int32"   -> CONFIG_TYPE_INT
      [] op = "write_int64"   -> CONFIG_TYPE_INT64
      [] op = "write_float64" -> CONFIG_TYPE_FLOAT
      [] op = "write_bool"    -> CONFIG_TYPE_BOOL
      [] op = "write_string"  -> CONFIG_TYPE_STRING

ReadBack(op, c, view) ==
    CASE op = "write_int32"   -> OptionReader_as_int32(c, view)
      [] op = "write_int64"   -> OptionReader_as_int64(c, view)
      [] op = "write_float64" -> OptionReader_as_float64(c, view)
      [] op = "write_bool"    -> OptionReader_as_bool(c, view)
      [] op = "write_string"  -> OptionReader_as_string(c, view)

\* The step of a write_T(n, v) call on a group W that does not hold n: one
\* scalar block s named n of type T and value v is the new last child of W,
\* every other block and the rest of W are as before, the call returns a
\* view of W, and value(n) on W finds s.  names are the names this is
\* stated for.
WriteAppends(names) ==
    (/\ OnGroup(last')
     /\ last'.op \in WriteOps
     /\ last'.name \in names
     /\ ~IsMember(config, last'.self[1], last'.name))
        => LET W == last'.self[1]
               s == config.brk
           IN /\ last'.ret = Some(last'.self)
              /\ config'.mem[W] = [config.mem[W] EXCEPT !.list = Append(@, s)]
              /\ \A p \in Ptrs \ {W, s} : config'.mem[p] = config.mem[p]
              /\ config'.live = config.live \cup {s}
              /\ config'.root = config.root
              /\ root_element' = root_element
              /\ config'.mem[s].type = StoredType(last'.op)
              /\ config'.mem[s].name = Some(last'.name)
              /\ config'.mem[s].parent = W
              /\ config'.mem[s].list = <<>>
              /\ ReadBack(last'.op, config', Some(s)) = Some(last'.val)
              /\ OptionReader_value(config', Some(W), last'.name) = Some(Some(s))

\* C7: on a group that does not hold the name n, and n a valid setting name,
\* write_T(n, v) appends exactly one scalar child n of type T and value v at
\* the end of the group, changes nothing else, and returns a writer of the
\* same group.
C7_WriteAppendsValidName ==
    [][WriteAppends({n \in Names : config_validate_name(n)})]_vars

\* C7 as stated, for every name the group does not hold.
C7_WriteAppendsAnyName == [][WriteAppends(Names)]_vars

\* write_string("b", "hi") on a group that held one child has returned a
\* view of that group, and the string is the second child.
C7_Witness ==
    /\ last.op = "write_string"
    /\ last.st = Bound
    /\ last.name = NameB
    /\ last.ret = Some(last.self)
    /\ LET list == config.mem[last.self[1]].list
       IN /\ Len(list) = 2
          /\ config.mem[list[2]].name = Some(NameB)
          /\ OptionReader_as_string(config, Some(list[2])) = Some(last.val)

\* The step of a create_* or write_* call on a bound view of a node whose
\* type is in types: it returns None and the tree is as before.
AddRejected(types) ==
    (/\ last'.op \in AddOps
     /\ last'.st = Bound
     /\ config.mem[last'.self[1]].type \in types)
        => (last'.ret = None /\ config' = config)

\* The step of a write_* call on a bound view of an array or a list, and of
\* a create_* call on a bound view of a list: the name is not used, one
\* unnamed block of the requested type is the new last element, and the
\* call returns Some (write_*: a view of the same array or list; create_*:
\* a view of the new element).
AddAppendsElement ==
    LET W == last'.self[1]
        s == config.brk
        appended(type) ==
            /\ config'.mem[W].list = Append(config.mem[W].list, s)
            /\ config'.mem[s].type = type
            /\ config'.mem[s].name = None
            /\ config'.mem[s].parent = W
    IN /\ (/\ last'.op \in WriteOps
           /\ last'.st = Bound
           /\ config.mem[W].type \in {CONFIG_TYPE_ARRAY, CONFIG_TYPE_LIST})
              => (last'.ret = Some(last'.self) /\ appended(StoredType(last'.op)))
       /\ (/\ last'.op \in CreateOps
           /\ last'.st = Bound
           /\ config.mem[W].type = CONFIG_TYPE_LIST)
              => (/\ last'.ret = Some(Some(s))
                  /\ appended(CASE last'.op = "create_section" -> CONFIG_TYPE_GROUP
                                [] last'.op = "create_array" -> CONFIG_TYPE_ARRAY
                                [] last'.op = "create_list" -> CONFIG_TYPE_LIST))

C10_UnboundAbsentNoChange ==
    [][ (last'.op \in ViewOps \cup ConfigOps /\ last'.st = Unbound)
            => /\ Absent(last')
               /\ config' = config
               /\ root_element' = root_element
      ]_vars

\* After a failed load Config::create_section builds a writer of None:
\* its create_section("b") has returned None, and the settings the parser
\* left in the config are as they were.
C10_Witness ==
    /\ last.op = "Config::create_section"
    /\ last.st = Unbound
    /\ last.name = NameB
    /\ last.ret = None
    /\ root_element = None
    /\ IsMember(config, config_root_setting(config), NameA)
    /\ ~IsMember(config, config_root_setting(config), NameB)

\* ------------------------------------------------------------------------
\* Building arrays: a caller that only calls create_array and write_T, on
\* every view it holds, from the empty document.
\* ------------------------------------------------------------------------
MaxArrayNodes == 4

NextArray ==
    \/ \E self \in Views, name \in Names :
          CreateArray(self, name) /\ Within(MaxArrayNodes)
    \/ \E self \in Views, name \in Names, v \in Int32Values :
          WriteInt32(self, name, v) /\ Within(MaxArrayNodes)
    \/ \E self \in Views, name \in Names, v \in Int64Values :
          WriteInt64(self, name, v) /\ Within(MaxArrayNodes)
    \/ \E self \in Views, name \in Names, v \in FloatValues :
          WriteFloat64(self, name, v) /\ Within(MaxArrayNodes)
    \/ \E self \in Views, name \in Names, v \in BOOLEAN :
          WriteBool(self, name, v) /\ Within(MaxArrayNodes)
    \/ \E self \in Views, name \in Names, v \in StringValues :
          WriteString(self, name, v) /\ Within(MaxArrayNodes)
    \/ Return

SpecArray == Init /\ [][NextArray]_vars

\* C9: every array of the tree holds only scalars, and all of one type.
C9_ArraysHomogeneous ==
    \A p \in config.live :
        config.mem[p].type = CONFIG_TYPE_ARRAY
            => LET list == config.mem[p].list
               IN \A i, j \in 1..Len(list) :
                      /\ config.mem[list[i]].type \in ScalarTypes
                      /\ config.mem[list[i]].type = config.mem[list[j]].type

\* C11: delete on a bound view of a node without parent (the root) or of a
\* group without name (a group that is an element of a list) returns
\* DeleteError and leaves the tree as it was; and no delete, on whatever
\* view, removes the root.
C11_DeleteRefused ==
    [][ /\ (/\ last'.op \in DeleteOps
            /\ last'.st = Bound
            /\ \/ config.mem[last'.self[1]].parent = NULL
               \/ /\ config.mem[last'.self[1]].type = CONFIG_TYPE_GROUP
                  /\ config.mem[last'.self[1]].name = None)
            => (last'.ret = Err(DeleteError) /\ config' = config)
        /\ last'.op \in DeleteOps
            => /\ config_root_setting(config') = config_root_setting(config)
               /\ config_root_setting(config) \in config'.live
               /\ root_element' = root_element
      ]_vars

\* delete on the group that is the element of a list has returned
\* DeleteError, and the group is still the element of the list.
C11_Witness ==
    /\ last.op = "delete"
    /\ last.st = Bound
    /\ last.ret = Err(DeleteError)
    /\ LET N == last.self[1]
       IN /\ config.mem[N].type = CONFIG_TYPE_GROUP
          /\ config.mem[N].parent # NULL
          /\ config.mem[config.mem[N].parent].type = CONFIG_TYPE_LIST
          /\ config.mem[config.mem[N].parent].list = <<N>>

Room == \A text \in Texts : config.brk + Len(Parse(text).prog) <= HeapSize

NextLoad ==
    \/ \E f \in FileNames : Room /\ LoadFromFile(f)
    \/ \E text \in Texts : Room /\ LoadFromString(text)
    \/ \E path \in Paths : ConfigValue(path)
    \/ \E name \in Names : config.brk <= HeapSize /\ ConfigCreateSection(name)
    \/ Return

SpecLoad == Init /\ [][NextLoad]_vars

\* The tree below s without its addresses: what a caller can tell of it.
RECURSIVE Tree(_, _)
Tree(c, s) ==
    [type |-> c.mem[s].type, name |-> c.mem[s].name, ival |-> c.mem[s].ival,
     llval |-> c.mem[s].llval, fval |-> c.mem[s].fval, sval |-> c.mem[s].sval,
     kids |-> [i \in 1..Len(c.mem[s].list) |-> Tree(c, c.mem[s].list[i])]]

\* The text a load step reads.
LoadedText(call) ==
    IF call.op = "load_from_file" THEN fs[call.val][1] ELSE call.val

\* C15: a load that returns Ok binds the root to a tree that is the parse of
\* the text alone (the tree a new document gets from it), whatever the
\* document held and whether or not its root binding was None: no block of
\* before is live, every path resolves to a block of the new tree, and
\* Config::create_section works on the new root.
C15_LoadRebinds ==
    [][ (last'.op \in LoadOps /\ last'.ret = Ok)
            => LET new == config_read_string(config_init, LoadedText(last')).c
               IN /\ root_element' = Some(config_root_setting(config'))
                  /\ config'.live \cap config.live = {}
                  /\ config'.live = Subtree(config', config'.root)
                  /\ Tree(config', config'.root) = Tree(new, new.root)
                  /\ \A p \in Paths :
                        LET r == Config_value(config', root_element', p)
                        IN r # None => r[1][1] \in config'.live
                  /\ \A n \in Names :
                        (/\ config'.brk <= HeapSize
                         /\ config_validate_name(n)
                         /\ ~IsMember(config', config'.root, n))
                            => Config_create_section(config', root_element', n).ret
                                  # None
      ]_vars

\* load_from_string of the group text has returned Ok on a document whose
\* root binding a failed load had cleared: "b.a" resolves again.
C15_Witness ==
    /\ last.op = "load_from_string"
    /\ last.st = Unbound
    /\ last.val = TextGroup
    /\ last.ret = Ok
    /\ root_element # None
    /\ Config_value(config, root_element, <<"b", ".", "a">>) # None

\* ------------------------------------------------------------------------
\* Paths: a caller that builds groups, arrays and integers, deletes, and
\* resolves paths from every view.
\* ------------------------------------------------------------------------
MaxPathNodes == 4

NextPath ==
    \/ \E path \in Paths : ConfigValue(path)
    \/ \E name \in Names : ConfigCreateSection(name) /\ Within(MaxPathNodes)
    \/ \E self \in Views : Delete(self)
    \/ \E self \in Views, name \in Names :
          CreateSection(self, name) /\ Within(MaxPathNodes)
    \/ \E self \in Views, name \in Names :
          CreateArray(self, name) /\ Within(MaxPathNodes)
    \/ \E self \in Views, name \in Names, v \in Int32Values :
          WriteInt32(self, name, v) /\ Within(MaxPathNodes)
    \/ \E self \in Views, path \in Paths : Value(self, path)
    \/ Return

SpecPath == Init /\ [][NextPath]_vars

\* The segments of a path, in order.
RECURSIVE Segments(_)
Segments(p) ==
    LET p1 == SkipTokens(p)
    IN IF p1 = <<>> THEN <<>>
       ELSE <<Segment(p1)>> \o Segments(AfterSegment(p1))

\* One step of a resolution: the node that segment seg names at node s, or
\* NULL.  "[i]" names the i-th child (from 0) of a group, array or list that
\* has one; any other segment names the member of a group with that name.
ResolveStep(c, s, seg) ==
    IF Head(seg) = "["
    THEN IF /\ c.mem[s].type \in AggregateTypes
            /\ atoi(Tail(seg)) < Len(c.mem[s].list)
         THEN c.mem[s].list[atoi(Tail(seg)) + 1]
         ELSE NULL
    ELSE LET named == {k \in 1..Len(c.mem[s].list) :
                          c.mem[c.mem[s].list[k]].name = Some(seg)}
         IN IF c.mem[s].type = CONFIG_TYPE_GROUP /\ named # {}
            THEN c.mem[s].list[CHOOSE k \in named : TRUE]
            ELSE NULL

\* The segments resolved one after the other from s; NULL at the first
\* segment that names nothing.
RECURSIVE Resolve(_, _, _)
Resolve(c, s, segs) ==
    IF segs = <<>> THEN s
    ELSE LET n == ResolveStep(c, s, Head(segs))
         IN IF n = NULL THEN NULL ELSE Resolve(c, n, Tail(segs))

Resolved(c, s, path) ==
    LET n == Resolve(c, s, Segments(path))
    IN IF n = NULL THEN None ELSE Some(Some(n))

\* Child b of group W with its subtree is the same before and after a step.
SameChild(W, b) ==
    /\ W \in config'.live
    /\ config'.mem[W].type = CONFIG_TYPE_GROUP
    /\ \E k \in 1..Len(config'.mem[W].list) : config'.mem[W].list[k] = b
    /\ Subtree(config', b) = Subtree(config, b)
    /\ \A q \in Subtree(config, b) : config'.mem[q] = config.mem[q]

\* The paths of the model that have a segment.
SegPaths == Paths \ {<<>>}

\* In tree c, value from every node, for every path with a segment, is the
\* resolution segment by segment; and a path through member b of a group
\* resolves as the rest of it does from b, to a node below b.
ResolvesIn(c) ==
    \A W \in c.live : \A path \in SegPaths :
        /\ OptionReader_value(c, Some(W), path) = Resolved(c, W, path)
        /\ c.mem[W].type = CONFIG_TYPE_GROUP
              => \A k \in 1..Len(c.mem[W].list) :
                    LET b == c.mem[W].list[k]
                        through == c.mem[b].name[1] \o <<".">> \o path
                        r == OptionReader_value(c, Some(W), through)
                    IN /\ r = OptionReader_value(c, Some(b), path)
                       /\ r = Resolved(c, W, through)
                       /\ r # None => r[1][1] \in Subtree(c, b) \ {b}

\* C13: value(path) on a bound view resolves the segments of the path one
\* after the other from the view's node, returning Some(view of the node
\* reached) or None at the first segment that names nothing; a path through
\* member b of a group resolves as the rest of the path does from b, inside
\* b's subtree, and is not changed by a step that leaves b's subtree alone
\* (siblings added, removed or written); value changes nothing, so a second
\* resolution returns the same node.  (ResolvesIn holds of the first tree
\* and of every tree a step makes, hence of every tree.)
C13_ValueResolves ==
    /\ ResolvesIn(config)
    /\ [][ /\ (last'.op \in {"value", "Config::value"} /\ last'.st = Bound)
              => /\ config' = config
                 /\ root_element' = root_element
                 /\ last'.name # <<>>
                       => last'.ret = Resolved(config, last'.self[1], last'.name)
           /\ config' # config
              => /\ ResolvesIn(config')
                 /\ \A W \in config.live :
                       config.mem[W].type = CONFIG_TYPE_GROUP
                          => \A k \in 1..Len(config.mem[W].list) :
                                LET b == config.mem[W].list[k]
                                IN SameChild(W, b)
                                      => \A path \in SegPaths :
                                            LET through == config.mem[b].name[1]
                                                              \o <<".">> \o path
                                            IN OptionReader_value(config', Some(W), through)
                                                = OptionReader_value(config, Some(W), through)
         ]_vars

\* value("b.a") on the view of the root has returned the child a of b, where
\* b is the second member of the root.
C13_Witness ==
    /\ last.op = "value"
    /\ last.st = Bound
    /\ last.self = Some(config.root)
    /\ last.name = <<"b", ".", "a">>
    /\ last.ret # None
    /\ Len(config.mem[config.root].list) = 2
    /\ config.mem[config.mem[config.root].list[2]].name = Some(NameB)
    /\ config.mem[last.ret[1][1]].parent = config.mem[config.root].list[2]
    /\ config.mem[last.ret[1][1]].name = Some(NameA)

\* ------------------------------------------------------------------------
\* Round trip: a caller that builds a tree, saves it and loads the file.
\* ------------------------------------------------------------------------
MaxTreeNodes == 4

\* The file the caller saves to and loads from.
SaveNames == {FileGood}

\* The heap has room for the tree of the text file f holds.
LoadRoom(f) ==
    fs[f] # None => config.brk + Len(Parse(fs[f][1]).prog) <= HeapSize

\* The tree under construction has fewer than MaxTreeNodes blocks.
TreeRoom == config.brk <= MaxTreeNodes

NextRoundTrip ==
    \/ \E name \in Names : TreeRoom /\ ConfigCreateSection(name)
    \/ \E self \in Views, name \in Names :
          TreeRoom /\ CreateSection(self, name)
    \/ \E self \in Views, name \in Names :
          TreeRoom /\ CreateArray(self, name)
    \/ \E self \in Views, name \in Names :
          TreeRoom /\ CreateList(self, name)
    \/ \E self \in Views, name \in Names, v \in Int32Values :
          TreeRoom /\ WriteInt32(self, name, v)
    \/ \E self \in Views, name \in Names, v \in Int64Values :
          TreeRoom /\ WriteInt64(self, name, v)
    \/ \E self \in Views, name \in Names, v \in FloatValues :
          TreeRoom /\ WriteFloat64(self, name, v)
    \/ \E self \in Views, name \in Names, v \in BOOLEAN :
          TreeRoom /\ WriteBool(self, name, v)
    \/ \E self \in Views, name \in Names, v \in StringValues :
          TreeRoom /\ WriteString(self, name, v)
    \/ \E f \in SaveNames, writable \in BOOLEAN : SaveToFile(f, writable)
    \/ \E f \in SaveNames : LoadRoom(f) /\ LoadFromFile(f)
    \/ Return

SpecRoundTrip == Init /\ [][NextRoundTrip]_vars

\* C12: load_from_file of a file that holds what save_to_file writes of the
\* present tree returns Ok and leaves a tree of the same shape, names, child
\* order, value types and values.
C12_RoundTrip ==
    [][ (/\ last'.op = "load_from_file"
         /\ root_element # None
         /\ fs[last'.val] = Some(config_write(config)))
            => /\ last'.ret = Ok
               /\ Tree(config', config'.root) = Tree(config, config.root)
      ]_vars

=============================================================================
